---------------------------- MODULE Spec2Model ----------------------------
(***************************************************************************)
(* Model of the authentication and user-store handlers of the backend:     *)
(* src/src/routes/auth.py (register, login, get_profile, change_password)  *)
(* and src/src/routes/users.py (get_users, create_user, update_user,       *)
(* update_last_login) over the user collection of                          *)
(* src/src/models/database.py, in its two forms: the in-memory fallback    *)
(* (a Python list of dicts) and the MongoDB collection with a unique index *)
(* on email.                                                               *)
(*                                                                         *)
(* Strings are sequences of one-character strings, so that lower(),        *)
(* strip() and the regular expressions are computed character by           *)
(* character.  Times are minutes.  A missing dict key is Absent, Python's  *)
(* None is None.                                                           *)
(*                                                                         *)
(* A handler ends by leaving its response in last; the response is sent in *)
(* a step of its own, Respond, before any other step is taken: sending     *)
(* reads and writes nothing the handlers use, so every interleaving has    *)
(* the same effect as one in which it comes first.                         *)
(*                                                                         *)
(* streak is a history variable: for each document, the number of          *)
(* consecutive login attempts that failed the password check, when the     *)
(* latest of them was made, and the password its latest hash was made of.  *)
(***************************************************************************)
EXTENDS Integers, Sequences, FiniteSets, TLC

VARIABLES mode, users, now, pc, local, last, streak

vars == <<mode, users, now, pc, local, last, streak>>

-----------------------------------------------------------------------------
(* Bounds of the model *)

\* at most this many user documents are inserted: under Spec, which follows
\* one account through lockout and time, and under SpecStore and SpecConc
LockoutUsers == 1
MaxUsers == 2
\* the clock stops advancing after this many minutes
MaxTime == 30
\* minutes by which one clock step advances
TickMinutes == 15
\* failed_login_attempts is not counted beyond this value: under Spec, and
\* under SpecStore and SpecConc
MaxFailed == 6
StoreFailed == 1
ConcFailed == 1
\* under SpecValidate the new passwords are the strings of this length and of
\* one character less
PolicyLen == 8

(* Program constants *)

\* auth.py:179  if failed_attempts >= 5
LockThreshold == 5
\* auth.py:180  timedelta(minutes=30)
LockMinutes == 30
\* auth.py:113, 228  timedelta(hours=24), in minutes
TokenMinutes == 1440
\* auth.py:18  len(password) < 8
MinPasswordLen == 8

Absent == -2
None == -1

-----------------------------------------------------------------------------
(* Characters and the str methods used by the handlers *)

UpperChars == <<"A", "B", "C", "D", "E", "F", "G", "H", "I", "J", "K", "L", "M",
                "N", "O", "P", "Q", "R", "S", "T", "U", "V", "W", "X", "Y", "Z">>
LowerChars == <<"a", "b", "c", "d", "e", "f", "g", "h", "i", "j", "k", "l", "m",
                "n", "o", "p", "q", "r", "s", "t", "u", "v", "w", "x", "y", "z">>
DigitChars == {"0", "1", "2", "3", "4", "5", "6", "7", "8", "9"}
SpaceChars == {" ", "\t", "\n", "\r"}

Range(s) == {s[i] : i \in 1..Len(s)}

UpperSet == Range(UpperChars)
LowerSet == Range(LowerChars)

IsUpper(c) == c \in UpperSet
IsLower(c) == c \in LowerSet
IsDigit(c) == c \in DigitChars
IsAlpha(c) == IsUpper(c) \/ IsLower(c)

\* the lowercase letter of each uppercase letter
LowerOf ==
    [c \in UpperSet |->
        LowerChars[CHOOSE i \in 1..Len(UpperChars) : UpperChars[i] = c]]

\* str.lower() on one character
LowerChar(c) == IF IsUpper(c) THEN LowerOf[c] ELSE c

\* str.lower()
lower(s) == [i \in 1..Len(s) |-> LowerChar(s[i])]

\* str.strip(): leading and trailing whitespace removed
strip(s) ==
    LET keep == {i \in 1..Len(s) : s[i] \notin SpaceChars}
    IN  IF keep = {} THEN <<>>
        ELSE LET lo == CHOOSE i \in keep : \A j \in keep : i <= j
                 hi == CHOOSE i \in keep : \A j \in keep : j <= i
             IN  SubSeq(s, lo, hi)

\* NormalizeEmail without lower()
NormalizeEmailNoLower(s) == strip(s)

\* data['email'].lower().strip()
NormalizeEmail(s) == strip(lower(s))


-----------------------------------------------------------------------------
(* Credential validation, auth.py:11-26 *)

LocalChars == UpperSet \cup LowerSet \cup DigitChars \cup {".", "_", "%", "+", "-"}
DomainChars == UpperSet \cup LowerSet \cup DigitChars \cup {".", "-"}

\* ^[a-zA-Z0-9._%+-]+@[a-zA-Z0-9.-]+\.[a-zA-Z]{2,} matched against all of s
MatchEmail(s) ==
    \E at \in 2..Len(s) : \E dot \in (at + 2)..(Len(s) - 2) :
        /\ s[at] = "@"
        /\ \A i \in 1..(at - 1) : s[i] \in LocalChars
        /\ \A i \in (at + 1)..(dot - 1) : s[i] \in DomainChars
        /\ s[dot] = "."
        /\ \A i \in (dot + 1)..Len(s) : IsAlpha(s[i])

\* re.match(pattern, email) is not None; in Python "$" also matches just
\* before a newline that ends the string
validate_email(s) ==
    \/ MatchEmail(s)
    \/ /\ Len(s) > 0
       /\ s[Len(s)] = "\n"
       /\ MatchEmail(SubSeq(s, 1, Len(s) - 1))

MsgTooShort == "Password must be at least 8 characters long"
MsgNoUpper == "Password must contain at least one uppercase letter"
MsgNoLower == "Password must contain at least one lowercase letter"
MsgNoDigit == "Password must contain at least one number"
MsgValid == "Password is valid"

\* validate_password without the test of the length
validate_password_no_length(p) ==
    IF ~ \E i \in 1..Len(p) : IsUpper(p[i]) THEN <<FALSE, MsgNoUpper>>
    ELSE IF ~ \E i \in 1..Len(p) : IsLower(p[i]) THEN <<FALSE, MsgNoLower>>
    ELSE IF ~ \E i \in 1..Len(p) : IsDigit(p[i]) THEN <<FALSE, MsgNoDigit>>
    ELSE <<TRUE, MsgValid>>

\* validate_password testing for a lowercase letter before an uppercase one
validate_password_lower_first(p) ==
    IF Len(p) < MinPasswordLen THEN <<FALSE, MsgTooShort>>
    ELSE IF ~ \E i \in 1..Len(p) : IsLower(p[i]) THEN <<FALSE, MsgNoLower>>
    ELSE IF ~ \E i \in 1..Len(p) : IsUpper(p[i]) THEN <<FALSE, MsgNoUpper>>
    ELSE IF ~ \E i \in 1..Len(p) : IsDigit(p[i]) THEN <<FALSE, MsgNoDigit>>
    ELSE <<TRUE, MsgValid>>

\* validate_password(password) -> (is_valid, message)
validate_password(p) ==
    IF Len(p) < MinPasswordLen THEN <<FALSE, MsgTooShort>>
    ELSE IF ~ \E i \in 1..Len(p) : IsUpper(p[i]) THEN <<FALSE, MsgNoUpper>>
    ELSE IF ~ \E i \in 1..Len(p) : IsLower(p[i]) THEN <<FALSE, MsgNoLower>>
    ELSE IF ~ \E i \in 1..Len(p) : IsDigit(p[i]) THEN <<FALSE, MsgNoDigit>>
    ELSE <<TRUE, MsgValid>>

-----------------------------------------------------------------------------
(* Password hashing, auth.py:28-35.  A bcrypt hash embeds its salt; it is  *)
(* modelled as the pair of the salt and the password it was made from,     *)
(* which only check_password looks into.                                   *)

Salts == {"s1"}

\* bcrypt.hashpw(password, salt) for the salt bcrypt.gensalt() returned
hash_password(p, salt) == [salt |-> salt, of |-> p]

\* check_password accepting every password
check_password_any(p, hashed) == TRUE

\* bcrypt.checkpw(password, hashed)
check_password(p, hashed) == hashed.of = p

-----------------------------------------------------------------------------
(* Request inputs *)

\* "A@x.io\n", "a@x.io", "b@x.io": the first is accepted by validate_email
\* and needs both lower() and strip() to become the second
EmailRaw == <<"A", "@", "x", ".", "i", "o", "\n">>
EmailLower == <<"a", "@", "x", ".", "i", "o">>
EmailOther == <<"b", "@", "x", ".", "i", "o">>
Emails == {EmailRaw, EmailLower, EmailOther}

\* "Valid1Pass", "Other2Pass", and "short1a", which fails two rules of
\* validate_password: its length and its lack of an uppercase letter
PwValid == <<"V", "a", "l", "i", "d", "1", "P", "a", "s", "s">>
PwOther == <<"O", "t", "h", "e", "r", "2", "P", "a", "s", "s">>
PwShort == <<"s", "h", "o", "r", "t", "1", "a">>
Passwords == {PwValid, PwOther, PwShort}

\* the passwords made of "A", "a" and "1" that are PolicyLen characters long
\* or one less
PolicyChars == {"A", "a", "1"}
PolicyInputs ==
    UNION {[1..n -> PolicyChars] : n \in (PolicyLen - 1)..PolicyLen}

Threads == {"t1", "t2"}

\* the validators and the normalization on each input, computed once
EmailValid == [e \in Emails |-> validate_email(e)]
EmailKey == [e \in Emails |-> NormalizeEmail(e)]
PasswordValid == [p \in Passwords |-> validate_password(p)]
Ids == 1..MaxUsers

-----------------------------------------------------------------------------
(* The user collection and the state of the requests in flight *)

\* the user_type a request may carry, <<>> for a request without the key:
\* none, one of the roles, one that is no role
RoleInputs == {<<>>, <<"admin">>, <<"root">>}

\* the requests that carry no user_type
NoRole == {<<>>}

\* auth.py:75 and users.py:56: data.get('user_type', 'member')
user_type(role) == IF role = <<>> THEN "member" ELSE role[1]

\* a user document; register writes all seven keys (auth.py:71-82, 95),
\* create_user leaves password, failed_login_attempts and locked_until out
\* (users.py:53-61, 74)
UserDoc(id, email, password, role, failed, locked, lastLogin) ==
    [id |-> id, email |-> email, password |-> password,
     user_type |-> user_type(role),
     failed_login_attempts |-> failed, locked_until |-> locked,
     last_login |-> lastLogin]

\* for key, value in data.items(): doc[key] = value   /   {'$set': data}
Merge(doc, data) ==
    [k \in DOMAIN doc |-> IF k \in DOMAIN data THEN data[k] ELSE doc[k]]

\* next((i for i, u in enumerate(db.users) if u['email'] == email), None)
\* and find_one({'email': email}); 0 stands for None
FindByEmail(us, email) ==
    IF \E i \in 1..Len(us) : us[i].email = email
    THEN CHOOSE i \in 1..Len(us) :
            /\ us[i].email = email
            /\ \A j \in 1..(i - 1) : us[j].email # email
    ELSE 0

\* next((i for i, u in enumerate(db.users) if u['_id'] == user_id), None)
\* and find_one({'_id': ObjectId(user_id)}); 0 stands for None
FindById(us, id) ==
    IF \E i \in 1..Len(us) : us[i].id = id
    THEN CHOOSE i \in 1..Len(us) :
            /\ us[i].id = id
            /\ \A j \in 1..(i - 1) : us[j].id # id
    ELSE 0

\* a JSON response: its HTTP status, its "error" string, the user_id, the
\* access_token and the user data it carries.  With it, of the request it
\* answers: the password a login presented or the identity and the
\* current_password a change_password presented, and found, the document
\* login, get_profile and change_password looked up (their local "user")
Response(op, status, error) ==
    [op |-> op, status |-> status, error |-> error, password |-> <<>>,
     uid |-> 0, token |-> <<>>, found |-> <<>>, data |-> <<>>]

\* create_access_token without expires_delta added to the time of issue
create_access_token_no_ttl(identity, at) == [sub |-> identity, exp |-> at]

\* create_access_token(identity=user_id, expires_delta=timedelta(hours=24))
create_access_token(identity, at) == [sub |-> identity, exp |-> at + TokenMinutes]

NoResponse == Response("", 0, "")

\* the local variables of a request between two of its steps
NoLocal == [op |-> "", email |-> <<>>, doc |-> <<>>, index |-> 0, at |-> None,
            update |-> <<>>, resp |-> NoResponse]

\* the password the hash of a document was made of, <<>> without a hash
Secret(doc) == IF doc.password = <<>> THEN <<>> ELSE doc.password[1].of

\* no failed attempt counted
NoStreak(secret) == [n |-> 0, at |-> None, secret |-> secret]

\* the history of a step that is not the write of a login: a new document
\* starts with no failed attempt, and a new hash is the hash of a new password
Watch ==
    streak' = [i \in 1..Len(users') |->
                 IF i > Len(users) THEN NoStreak(Secret(users'[i]))
                 ELSE IF users'[i].password \in {<<>>, users[i].password}
                      THEN streak[i]
                      ELSE [streak[i] EXCEPT !.secret = Secret(users'[i])]]

\* documents being inserted by the requests in flight
Inserting == {t \in Threads : pc[t] \in {"insert_assign", "insert_append"}}

\* the model inserts at most cap documents
Room(cap) == Len(users) + Cardinality(Inserting) < cap

Init ==
    /\ mode \in {"memory", "mongo"}
    /\ users = <<>>
    /\ now = 0
    /\ pc = [t \in Threads |-> "idle"]
    /\ local = [t \in Threads |-> NoLocal]
    /\ last = NoResponse
    /\ streak = <<>>

\* no response waits to be sent
Quiet == last = NoResponse

\* thread t is at this place of a handler ("idle": free to take a request)
At(t, place) == pc[t] = place /\ Quiet

\* the request of thread t returns response r
Return(t, r) ==
    /\ last' = r
    /\ pc' = [pc EXCEPT ![t] = "respond"]
    /\ local' = [local EXCEPT ![t] = NoLocal]

\* the response is sent and the thread is free again
Respond(t) ==
    /\ pc[t] = "respond"
    /\ pc' = [pc EXCEPT ![t] = "idle"]
    /\ last' = NoResponse
    /\ UNCHANGED <<mode, users, now, local, streak>>

\* the wall clock advances
Tick ==
    /\ Quiet
    /\ now + TickMinutes <= MaxTime
    /\ now' = now + TickMinutes
    /\ UNCHANGED <<mode, users, pc, local, last, streak>>

-----------------------------------------------------------------------------
(* Inserting a user document.  On the in-memory list the handler tests     *)
(* any(u['email'] == ...), then reads len(db.users) for the id, then       *)
(* appends: three steps other requests may run between.  insert_one on the *)
(* MongoDB collection is one step, refused by the unique index on email    *)
(* (database.py:57).                                                       *)

\* any(u['email'] == user['email'] for u in db.users), and the unique index
EmailTaken(us, email) == \E i \in 1..Len(us) : us[i].email = email

\* PublicView returning the document as stored
PublicViewStored(doc) == doc

\* the public view register and login return (name is not modelled)
PublicView(doc) == [id |-> doc.id, email |-> doc.email, user_type |-> doc.user_type]

\* the 201 response of the insert: register's (auth.py:110-128) or
\* create_user's (users.py:89-92)
InsertedResponse(req, doc) ==
    IF req.op = "register"
    THEN [req EXCEPT !.status = 201, !.uid = doc.id,
                     !.token = <<create_access_token(doc.id, now)>>,
                     !.data = <<PublicView(doc)>>]
    ELSE [req EXCEPT !.status = 201, !.uid = doc.id]

\* the handler returns r and leaves the collection as it is
Refuse(t, r) ==
    /\ Return(t, r)
    /\ UNCHANGED users

\* auth.py:84-108 and users.py:63-87: the duplicate test and the insert
Insert(t, req, user, taken, cap) ==
    IF EmailTaken(users, user.email)
    THEN Refuse(t, [req EXCEPT !.status = 400, !.error = taken])
    ELSE /\ Room(cap)
         /\ IF mode = "memory"
            THEN /\ pc' = [pc EXCEPT ![t] = "insert_assign"]
                 /\ local' = [local EXCEPT ![t] =
                                [NoLocal EXCEPT !.op = req.op, !.doc = <<user>>,
                                                !.resp = req]]
                 /\ UNCHANGED <<users, last>>
            ELSE LET doc == [user EXCEPT !.id = Len(users) + 1]
                 IN  /\ users' = Append(users, doc)
                     /\ Return(t, InsertedResponse(req, doc))

\* auth.py:37-134
Register(t, email, password, role, salt, cap) ==
    /\ At(t, "idle")
    /\ UNCHANGED <<mode, now>>
    /\ LET req == Response("register", 0, "")
           valid == PasswordValid[password]
           user == UserDoc(0, EmailKey[email],
                           <<hash_password(password, salt)>>, role, 0, None, None)
       IN  IF email = <<>>
           THEN Refuse(t, [req EXCEPT !.status = 400,
                                      !.error = "Missing required field: email"])
           ELSE IF password = <<>>
           THEN Refuse(t, [req EXCEPT !.status = 400,
                                      !.error = "Missing required field: password"])
           ELSE IF ~ EmailValid[email]
           THEN Refuse(t, [req EXCEPT !.status = 400,
                                      !.error = "Invalid email format"])
           ELSE IF ~ valid[1]
           THEN Refuse(t, [req EXCEPT !.status = 400, !.error = valid[2]])
           ELSE Insert(t, req, user, "Email already registered", cap)
    /\ Watch

\* users.py:37-97
CreateUser(t, email, role, cap) ==
    /\ At(t, "idle")
    /\ UNCHANGED <<mode, now>>
    /\ LET req == Response("create_user", 0, "")
           user == UserDoc(0, email, <<>>, role, Absent, Absent, None)
       IN  Insert(t, req, user, "Email already exists", cap)
    /\ Watch

\* auth.py:95 and users.py:74: user['_id'] = str(len(db.users) + 1)
InsertAssign(t) ==
    /\ At(t, "insert_assign")
    /\ local' = [local EXCEPT ![t].doc =
                    <<[local[t].doc[1] EXCEPT !.id = Len(users) + 1]>>]
    /\ pc' = [pc EXCEPT ![t] = "insert_append"]
    /\ UNCHANGED <<mode, users, now, last, streak>>

\* auth.py:96 and users.py:75: db.users.append(user), then the response
InsertAppend(t) ==
    /\ At(t, "insert_append")
    /\ users' = Append(users, local[t].doc[1])
    /\ Return(t, InsertedResponse(local[t].resp, local[t].doc[1]))
    /\ UNCHANGED <<mode, now>>
    /\ Watch

-----------------------------------------------------------------------------
(* login, auth.py:136-248.  The handler reads the document (find_one, or a *)
(* scan of the list), decides on it, and then writes update_data in a      *)
(* second store operation (update_one, or a second scan): two steps other  *)
(* requests may run between.                                               *)

\* IsLocked with the comparison reversed
IsLockedReversed(user, at) ==
    /\ user.locked_until \notin {None, Absent}
    /\ user.locked_until < at

\* auth.py:167: user.get('locked_until') and user['locked_until'] > now
IsLocked(user, at) ==
    /\ user.locked_until \notin {None, Absent}
    /\ user.locked_until > at

\* auth.py:176: user.get('failed_login_attempts', 0) + 1
NextFailed(user) ==
    (IF user.failed_login_attempts = Absent THEN 0
     ELSE user.failed_login_attempts) + 1

\* auth.py:179-186: update_data after a failed password check
FailedUpdate(user, at) ==
    IF NextFailed(user) >= LockThreshold
    THEN [failed_login_attempts |-> NextFailed(user),
          locked_until |-> at + LockMinutes]
    ELSE [failed_login_attempts |-> NextFailed(user)]

\* SuccessUpdate without last_login
SuccessUpdateNoLastLogin(at) == [failed_login_attempts |-> 0, locked_until |-> None]

\* auth.py:206-210: update_data after a successful password check
SuccessUpdate(at) ==
    [failed_login_attempts |-> 0, locked_until |-> None, last_login |-> at]

MsgInvalid == "Invalid email or password"
MsgLocked == "Account temporarily locked due to failed login attempts"

\* auth.py:139-210: up to the choice of update_data
Login(t, email, password, maxFailed) ==
    /\ At(t, "idle")
    /\ UNCHANGED <<mode, now>>
    /\ LET req == [Response("login", 0, "") EXCEPT !.password = password]
           key == EmailKey[email]
           i == FindByEmail(users, key)
           user == users[i]
           seen == [req EXCEPT !.found = <<user>>]
           pending(update, r) ==
               /\ pc' = [pc EXCEPT ![t] = "login_write"]
               /\ local' = [local EXCEPT ![t] =
                              [NoLocal EXCEPT !.op = "login", !.email = key,
                                              !.index = i, !.at = now,
                                              !.update = update, !.resp = r]]
               /\ UNCHANGED <<users, last>>
       IN  IF email = <<>> \/ password = <<>>
           THEN Refuse(t, [req EXCEPT !.status = 400,
                                      !.error = "Email and password are required"])
           ELSE IF i = 0
           THEN Refuse(t, [req EXCEPT !.status = 401, !.error = MsgInvalid])
           ELSE IF IsLocked(user, now)
           THEN Refuse(t, [seen EXCEPT !.status = 423, !.error = MsgLocked])
           ELSE IF user.password = <<>>
           THEN \* user['password'] raises KeyError, answered by auth.py:244-248
                Refuse(t, [seen EXCEPT !.status = 500, !.error = "'password'"])
           ELSE IF ~ check_password(password, user.password[1])
           THEN /\ NextFailed(user) <= maxFailed
                /\ streak[i].n < maxFailed
                /\ pending(FailedUpdate(user, now),
                           [seen EXCEPT !.status = 401, !.error = MsgInvalid])
           ELSE pending(SuccessUpdate(now), [seen EXCEPT !.status = 200])
    /\ Watch

\* auth.py:188-203 and 212-242: the write of update_data, then the response
LoginWrite(t) ==
    /\ At(t, "login_write")
    /\ UNCHANGED <<mode, now>>
    /\ LET i == FindByEmail(users, local[t].email)
           r == local[t].resp
           user == r.found[1]
       IN  /\ users' = IF i = 0 THEN users
                       ELSE [users EXCEPT ![i] = Merge(@, local[t].update)]
           /\ Return(t, IF r.status = 200
                        THEN [r EXCEPT !.uid = user.id,
                                       !.token = <<create_access_token(user.id, now)>>,
                                       !.data = <<PublicView(user)>>]
                        ELSE r)
           /\ streak' = [streak EXCEPT ![local[t].index] =
                            IF r.status = 200 THEN NoStreak(@.secret)
                            ELSE [@ EXCEPT !.n = @ + 1, !.at = local[t].at]]

-----------------------------------------------------------------------------
(* get_profile and change_password, auth.py:250-357.  The identity of the  *)
(* bearer token is the uid.                                                *)

\* auth.py:251, 292: @jwt_required() lets a request through when the expiry
\* of its token is after the clock; get_jwt_identity() is then token.sub
jwt_required(token, at) == token.exp > at

\* auth.py:252-289
GetProfile(t, uid) ==
    /\ At(t, "idle")
    /\ UNCHANGED <<mode, now>>
    /\ LET req == Response("get_profile", 0, "")
           i == FindById(users, uid)
           user == users[i]
       IN  IF i = 0
           THEN Refuse(t, [req EXCEPT !.status = 404, !.error = "User not found"])
           ELSE Refuse(t, [req EXCEPT !.status = 200, !.found = <<user>>,
                             !.data = <<[id |-> user.id, email |-> user.email,
                                         user_type |-> user.user_type,
                                         last_login |-> user.last_login]>>])
    /\ Watch

\* auth.py:293-357
ChangePassword(t, uid, current, new, salt) ==
    /\ At(t, "idle")
    /\ UNCHANGED <<mode, now>>
    /\ LET req == [Response("change_password", 0, "") EXCEPT
                      !.uid = uid, !.password = current]
           valid == IF new \in Passwords THEN PasswordValid[new]
                    ELSE validate_password(new)
           i == FindById(users, uid)
           user == users[i]
           seen == [req EXCEPT !.found = <<user>>]
       IN  IF current = <<>> \/ new = <<>>
           THEN Refuse(t, [req EXCEPT !.status = 400, !.error =
                             "Current password and new password are required"])
           ELSE IF ~ valid[1]
           THEN Refuse(t, [req EXCEPT !.status = 400, !.error = valid[2]])
           ELSE IF i = 0
           THEN Refuse(t, [req EXCEPT !.status = 404, !.error = "User not found"])
           ELSE IF user.password = <<>>
           THEN Refuse(t, [seen EXCEPT !.status = 500, !.error = "'password'"])
           ELSE IF ~ check_password(current, user.password[1])
           THEN Refuse(t, [seen EXCEPT !.status = 401,
                                       !.error = "Current password is incorrect"])
           ELSE /\ users' = [users EXCEPT ![i].password =
                                <<hash_password(new, salt)>>]
                /\ Return(t, [seen EXCEPT !.status = 200])
    /\ Watch

-----------------------------------------------------------------------------
(* The user CRUD handlers, users.py *)

\* user.pop('password', None) / data.pop(key, None)
Pop(data, keys) == [k \in DOMAIN data \ keys |-> data[k]]

\* users.py:8-35.  On the in-memory store "users" is db.users itself, so
\* the pop removes the key from the stored documents; find() returns copies
GetUsers(t) ==
    /\ At(t, "idle")
    /\ UNCHANGED <<mode, now>>
    /\ LET listed == [i \in 1..Len(users) |-> [users[i] EXCEPT !.password = <<>>]]
       IN  /\ users' = IF mode = "memory" THEN listed ELSE users
           /\ Return(t, [Response("get_users", 200, "") EXCEPT !.data = <<listed>>])
    /\ Watch

\* the JSON bodies sent to update_user
UpdateBodies ==
    {[email |-> e] : e \in Emails}
        \cup {[failed_login_attempts |-> 0], [locked_until |-> None],
              [password |-> <<PwShort>>]}

\* users.py:99-146
UpdateUser(t, uid, body, emptySetRefused) ==
    /\ At(t, "idle")
    /\ UNCHANGED <<mode, now>>
    /\ LET req == Response("update_user", 0, "")
           data == Pop(body, {"password", "id"})
           i == FindById(users, uid)
           user == users[i]
           notFound == [req EXCEPT !.status = 404, !.error = "User not found"]
           done == [req EXCEPT !.status = 200]
       IN  IF mode = "memory"
           THEN IF i = 0
                THEN Refuse(t, notFound)
                ELSE /\ users' = [users EXCEPT ![i] = Merge(@, data)]
                     /\ Return(t, done)
           ELSE IF DOMAIN data = {} /\ emptySetRefused
           THEN \* servers before MongoDB 5.0 refuse {'$set': {}}
                Refuse(t, [req EXCEPT !.status = 500, !.error = "'$set' is empty"])
           ELSE IF i = 0
           THEN Refuse(t, notFound)
           ELSE IF /\ "email" \in DOMAIN data
                   /\ \E j \in 1..Len(users) : j # i /\ users[j].email = data.email
           THEN Refuse(t, [req EXCEPT !.status = 500,
                                      !.error = "E11000 duplicate key error"])
           ELSE IF Merge(user, data) = user
           THEN \* modified_count is 0 when $set changes nothing
                Refuse(t, notFound)
           ELSE /\ users' = [users EXCEPT ![i] = Merge(@, data)]
                /\ Return(t, done)
    /\ Watch

\* users.py:148-186
UpdateLastLogin(t, uid) ==
    /\ At(t, "idle")
    /\ UNCHANGED <<mode, now>>
    /\ LET req == Response("update_last_login", 0, "")
           i == FindById(users, uid)
       IN  IF i = 0
           THEN Refuse(t, [req EXCEPT !.status = 404, !.error = "User not found"])
           ELSE /\ users' = [users EXCEPT ![i].last_login = now]
                /\ Return(t, [req EXCEPT !.status = 200])
    /\ Watch

-----------------------------------------------------------------------------
(* The specifications: requests served one at a time, and by two threads   *)

\* one step of a request to a handler that makes several store operations,
\* served by thread t, or the sending of a response, in a model of at most
\* cap documents and maxFailed counted failures, of requests whose user_type is
\* one of roles
Stepwise(t, cap, maxFailed, roles) ==
    \/ \E e \in Emails, p \in Passwords, r \in roles, s \in Salts :
          Register(t, e, p, r, s, cap)
    \/ \E e \in Emails, r \in roles : CreateUser(t, e, r, cap)
    \/ InsertAssign(t)
    \/ InsertAppend(t)
    \/ \E e \in Emails, p \in Passwords : Login(t, e, p, maxFailed)
    \/ LoginWrite(t)
    \/ Respond(t)

\* a request to a handler that makes one store operation
Single(t) ==
    \/ \E uid \in Ids : GetProfile(t, uid)
    \/ \E uid \in Ids, c \in Passwords, n \in Passwords, s \in Salts :
          ChangePassword(t, uid, c, n, s)
    \/ GetUsers(t)
    \/ \E uid \in Ids, b \in UpdateBodies, r \in BOOLEAN : UpdateUser(t, uid, b, r)
    \/ \E uid \in Ids : UpdateLastLogin(t, uid)

\* one account through lockout and time, requests served one at a time
Next ==
    \/ Stepwise("t1", LockoutUsers, MaxFailed, NoRole)
    \/ Single("t1")
    \/ Tick

\* two accounts, requests served one at a time
NextStore ==
    \/ Stepwise("t1", MaxUsers, StoreFailed, NoRole)
    \/ Single("t1")

\* two accounts, the handlers of several store operations run by two threads
NextConc == \E t \in Threads : Stepwise(t, MaxUsers, ConcFailed, NoRole)

Spec == Init /\ [][Next]_vars

SpecStore == Init /\ [][NextStore]_vars

SpecConc == Init /\ [][NextConc]_vars

\* two accounts, requests that carry any user_type, served one at a time
NextRoles == Stepwise("t1", MaxUsers, StoreFailed, RoleInputs)

SpecRoles == Init /\ [][NextRoles]_vars

\* change_password requests whose new password, also given as the current
\* one, ranges over PolicyInputs
NextValidate ==
    \/ /\ pc["t1"] = "idle"
       /\ \E p \in PolicyInputs, s \in Salts : ChangePassword("t1", 1, p, p, s)
    \/ Respond("t1")

SpecValidate == Init /\ [][NextValidate]_vars

-----------------------------------------------------------------------------
(* Properties of the lockout, checked under Spec *)

\* the document a login for this email is decided on, 0 when there is none
Account(email) == FindByEmail(users, NormalizeEmail(email))

\* p is the password of the account: the one its latest hash was made of
Correct(i, p) == streak[i].secret = p

\* the stored hash of the document is there and does not verify p
Rejects(user, p) == user.password # <<>> /\ user.password[1].of # p

\* the document the pending write of a login was decided on
Pending(t) == local[t].resp.found[1]

\* C1 (as claimed): after five consecutive login attempts that failed the
\* password check the account is locked for 30 minutes from the fifth, and
\* every login attempt made in those 30 minutes is answered 423 and changes
\* nothing, whatever password it carries, the correct one included.
C1_LockedAfterFiveFailures ==
    [][/\ \A i \in 1..Len(users') :
            streak'[i].n >= 5 => users'[i].locked_until = streak'[i].at + 30
       /\ \A e \in Emails, p \in Passwords :
            (/\ Account(e) # 0
             /\ streak[Account(e)].n >= 5
             /\ now < streak[Account(e)].at + 30
             /\ Login("t1", e, p, MaxFailed))
            => /\ last'.op = "login"
               /\ last'.status = 423
               /\ last'.error = MsgLocked
               /\ last'.token = <<>>
               /\ users' = users]_vars

\* C2 (as claimed): a login with the password of the account, made when the
\* lock of the account has run out (locked_until is set and not after the
\* clock), passes the password check, and its write leaves
\* failed_login_attempts at 0 and returns a token for the account.
C2_LoginAfterLockExpiry ==
    [][/\ \A e \in Emails, p \in Passwords :
            (/\ Account(e) # 0
             /\ users[Account(e)].locked_until \notin {None, Absent}
             /\ users[Account(e)].locked_until <= now
             /\ Correct(Account(e), p)
             /\ Login("t1", e, p, MaxFailed))
            => /\ pc'["t1"] = "login_write"
               /\ local'["t1"].resp.status = 200
               /\ local'["t1"].index = Account(e)
       /\ (/\ pc["t1"] = "login_write"
           /\ local["t1"].resp.status = 200
           /\ Pending("t1").locked_until \notin {None, Absent}
           /\ LoginWrite("t1"))
            => /\ last'.status = 200
               /\ last'.token # <<>>
               /\ last'.token[1].sub = Pending("t1").id
               /\ users'[local["t1"].index].failed_login_attempts = 0]_vars

\* C3: the write of every login that passed the password check leaves the
\* account with failed_login_attempts = 0 and last_login equal to the time
\* the login read the clock, and the login is answered 200.
C3_SuccessResets ==
    [][/\ \A e \in Emails, p \in Passwords :
            (/\ Account(e) # 0
             /\ Login("t1", e, p, MaxFailed)
             /\ pc'["t1"] = "login_write")
            => local'["t1"].at = now
       /\ (/\ pc["t1"] = "login_write"
           /\ local["t1"].resp.status = 200
           /\ LoginWrite("t1"))
            => /\ last'.status = 200
               /\ users'[local["t1"].index].failed_login_attempts = 0
               /\ users'[local["t1"].index].last_login = local["t1"].at]_vars

\* C3 witness: a login has succeeded on an unlocked account that had failed
\* attempts counted, and the account now has none and a later last_login
C3_Witness ==
    /\ last.op = "login"
    /\ last.status = 200
    /\ last.found[1].failed_login_attempts \in 1..4
    /\ last.found[1].locked_until = None
    /\ \E i \in 1..Len(users) :
        /\ users[i].id = last.found[1].id
        /\ users[i].failed_login_attempts = 0
        /\ users[i].last_login > last.found[1].last_login

-----------------------------------------------------------------------------
(* Concurrent logins, checked under SpecConc *)

\* the failed attempts the document counts
FailedCount(user) ==
    IF user.failed_login_attempts = Absent THEN 0 ELSE user.failed_login_attempts

\* C4 (as claimed): no increment is lost: the failed attempts a document
\* counts are never fewer than the consecutive attempts that have failed the
\* password check on it.
C4_NoLostIncrement ==
    \A i \in 1..Len(users) : streak[i].n <= FailedCount(users[i])

-----------------------------------------------------------------------------
(* Email uniqueness, checked under SpecStore and SpecConc *)

\* the reason the password policy rejects p for, "" when p passes: at least
\* 8 characters, then an uppercase letter, then a lowercase letter, then a digit
PolicyReason(p) ==
    IF Len(p) < 8 THEN MsgTooShort
    ELSE IF \A i \in 1..Len(p) : p[i] \notin Range(UpperChars) THEN MsgNoUpper
    ELSE IF \A i \in 1..Len(p) : p[i] \notin Range(LowerChars) THEN MsgNoLower
    ELSE IF \A i \in 1..Len(p) : p[i] \notin DigitChars THEN MsgNoDigit
    ELSE ""

MsgDuplicate == "Email already registered"

\* C5: a register with a valid email and password whose email, lowercased and
\* trimmed, is the email of an existing account is answered 400 "Email
\* already registered" and adds no account: so "A@x.io\n" while "a@x.io"
\* exists.
C5_RegisterDuplicateRefused ==
    [][/\ \A e \in Emails, p \in Passwords, s \in Salts :
            (/\ pc["t1"] = "idle"
             /\ Register("t1", e, p, <<>>, s, MaxUsers)
             /\ \E i \in 1..Len(users) : users[i].email = strip(lower(e))
             /\ PolicyReason(p) = "")
            => /\ last'.op = "register"
               /\ last'.status = 400
               /\ last'.error = MsgDuplicate
               /\ users' = users
       /\ \A s \in Salts :
            (/\ pc["t1"] = "idle"
             /\ Register("t1", EmailRaw, PwValid, <<>>, s, MaxUsers)
             /\ \E i \in 1..Len(users) : users[i].email = EmailLower)
            => /\ last'.status = 400
               /\ last'.error = MsgDuplicate
               /\ users' = users]_vars

\* C5 witness: a register has been refused as a duplicate while one account
\* exists
C5_Witness ==
    /\ last.op = "register"
    /\ last.status = 400
    /\ last.error = MsgDuplicate
    /\ Len(users) = 1

\* C6 (as claimed): in every reachable state no two accounts have emails
\* with the same normalized form.
C6_UniqueNormalizedEmail ==
    \A i, j \in 1..Len(users) :
        strip(lower(users[i].email)) = strip(lower(users[j].email)) => i = j

\* C7 (as claimed): the duplicate check of register is atomic with the
\* insertion: no two accounts made by register (the ones with a password
\* hash) have the same email, however registers interleave.
C7_RegisterAtomic ==
    \A i, j \in 1..Len(users) :
        (/\ users[i].password # <<>>
         /\ users[j].password # <<>>
         /\ users[i].email = users[j].email) => i = j

-----------------------------------------------------------------------------
(* change_password and the results of login, checked under Spec *)

MsgNotFound == "User not found"

MsgCurrentWrong == "Current password is incorrect"

\* C8: change_password on an existing account with the password of the
\* account as current password and a new password that fails the policy is
\* answered 400 with the reason of the first rule that fails, and no
\* document changes.
C8_WeakNewPasswordRefused ==
    [][\A uid \in Ids, c \in Passwords, n \in Passwords, s \in Salts :
            (/\ pc["t1"] = "idle"
             /\ FindById(users, uid) # 0
             /\ Correct(FindById(users, uid), c)
             /\ PolicyReason(n) # ""
             /\ ChangePassword("t1", uid, c, n, s))
            => /\ last'.op = "change_password"
               /\ last'.status = 400
               /\ last'.error = PolicyReason(n)
               /\ users' = users]_vars

\* C8 witness: a change_password with the correct current password has been
\* refused for a new password that is too short
C8_Witness ==
    /\ last.op = "change_password"
    /\ last.status = 400
    /\ last.error = MsgTooShort
    /\ FindById(users, last.uid) # 0
    /\ Correct(FindById(users, last.uid), last.password)
    /\ users[FindById(users, last.uid)].password # <<>>

Result(r) == <<r.status, r.error, r.token, r.data>>

InvalidCredentials == <<401, MsgInvalid, <<>>, <<>>>>

\* the account is locked at the current time
LockedNow(user) ==
    user.locked_until \notin {None, Absent} /\ user.locked_until > now

\* C10 (as claimed): a login for an email no account has is answered 401
\* "Invalid email or password" without token or user data and changes no
\* document; a login with a password that is not the password of the account,
\* on an existing account that is not locked, is answered with exactly the
\* same result; 423 is only ever the answer for an account that is locked.
C10_UniformInvalidCredentials ==
    [][/\ (pc["t1"] = "idle" /\ Quiet)
            => \A e \in Emails, p \in Passwords :
                Login("t1", e, p, MaxFailed)
                => /\ Account(e) = 0
                        => /\ Result(last') = InvalidCredentials
                           /\ users' = users
                   /\ (/\ Account(e) # 0
                       /\ ~ LockedNow(users[Account(e)])
                       /\ ~ Correct(Account(e), p))
                        => \/ Result(last') = InvalidCredentials
                           \/ /\ pc'["t1"] = "login_write"
                              /\ Result(local'["t1"].resp) = InvalidCredentials
                   /\ (last'.status = 423 \/ local'["t1"].resp.status = 423)
                        => /\ Account(e) # 0
                           /\ LockedNow(users[Account(e)])
       /\ (/\ pc["t1"] = "login_write"
           /\ local["t1"].resp.status = 401
           /\ LoginWrite("t1"))
            => Result(last') = Result(local["t1"].resp)]_vars

-----------------------------------------------------------------------------
(* What the responses carry, checked under Spec *)

\* the keys of a document that are not to leave the store
Sensitive == {"password", "failed_login_attempts", "locked_until"}

\* C11: no response of register, login or get_profile carries the password
\* hash or the lockout fields of a document: its user data has none of the
\* keys password, failed_login_attempts, locked_until, its token holds only
\* the identity and the expiry, and its error is not made from the document.
C11_NoSecretsInResults ==
    last.op \in {"register", "login", "get_profile"}
    => /\ last.data # <<>> => DOMAIN last.data[1] \cap Sensitive = {}
       /\ last.token # <<>> => DOMAIN last.token[1] = {"sub", "exp"}
       /\ last.error \in {"", MsgInvalid, MsgLocked, MsgDuplicate, MsgNotFound,
                          "'password'", "Invalid email format",
                          "Email and password are required",
                          "Missing required field: email",
                          "Missing required field: password",
                          MsgTooShort, MsgNoUpper, MsgNoLower, MsgNoDigit}

\* C11 witness: a login has succeeded, and returned user data, on a document
\* that holds a hash, counted failures and a lock that has run out
C11_Witness ==
    /\ last.op = "login"
    /\ last.status = 200
    /\ last.data # <<>>
    /\ last.found[1].password # <<>>
    /\ last.found[1].failed_login_attempts >= 5
    /\ last.found[1].locked_until \notin {None, Absent}

\* minutes after its issue at which a token is presented
Delays == {0, 1, 24 * 60 - 1, 24 * 60, 24 * 60 + 1}

\* C12: a token issued by register or login carries the id of the account
\* registered or logged in, is let through by jwt_required at the time of its
\* issue, and at any later time is let through exactly when fewer than 24
\* hours have passed since.
C12_TokenBoundAndExpiring ==
    [][(last.token = <<>> /\ last'.token # <<>>)
        => /\ last'.op \in {"register", "login"}
           /\ last'.op = "register"
                => /\ Len(users') = Len(users) + 1
                   /\ last'.token[1].sub = users'[Len(users')].id
           /\ last'.op = "login"
                => /\ last'.found # <<>>
                   /\ last'.token[1].sub = last'.found[1].id
                   /\ Correct(FindById(users, last'.found[1].id), last'.password)
           /\ \A d \in Delays :
                jwt_required(last'.token[1], now' + d) <=> d < 24 * 60]_vars

\* C12 witness: a login made after the clock has advanced has returned a token
\* for the account it found
C12_Witness ==
    /\ last.op = "login"
    /\ last.token # <<>>
    /\ last.found # <<>>
    /\ last.token[1].sub = last.found[1].id
    /\ last.token[1].exp > 24 * 60
    /\ jwt_required(last.token[1], now)

-----------------------------------------------------------------------------
(* validate_password, checked under SpecValidate *)

\* C13: validate_password accepts a password exactly when it has at least 8
\* characters, an uppercase letter, a lowercase letter and a digit, and
\* otherwise gives the reason of the first of these four that fails, in this
\* order: change_password, which validates its new password before anything
\* else, answers 400 with that reason, and gets past the validation otherwise.
C13_ValidatePassword ==
    (last.op = "change_password" /\ Range(last.password) \subseteq PolicyChars)
    => LET p == last.password
           has(chars) == \E i \in 1..Len(p) : p[i] \in chars
       IN  IF /\ Len(p) >= 8
              /\ has(Range(UpperChars))
              /\ has(Range(LowerChars))
              /\ has(DigitChars)
           THEN last.status = 404 /\ last.error = MsgNotFound
           ELSE /\ last.status = 400
                /\ last.error = IF Len(p) < 8 THEN MsgTooShort
                                ELSE IF ~ has(Range(UpperChars)) THEN MsgNoUpper
                                ELSE IF ~ has(Range(LowerChars)) THEN MsgNoLower
                                ELSE MsgNoDigit

\* C13 witness: a new password of 8 characters with an uppercase and a
\* lowercase letter has been refused for its lack of a digit
C13_Witness ==
    /\ last.op = "change_password"
    /\ Range(last.password) \subseteq PolicyChars
    /\ Len(last.password) = 8
    /\ last.status = 400
    /\ last.error = MsgNoDigit

-----------------------------------------------------------------------------
(* Properties of the roles, checked under SpecRoles *)

Roles == {"member", "admin", "premium"}

\* C14: every account in the store has a role in {member, admin, premium}
\* (an account registered without a role gets member, and register never
\* stores a role outside that set)
C14_RolesEnumerated ==
    \A i \in 1..Len(users) : users[i].user_type \in Roles

-----------------------------------------------------------------------------
(* Properties of the lockout and of the stored hash, checked under Spec *)

\* the document has locked_until set
LockSet(user) == user.locked_until \notin {None, Absent}

\* C15 (as claimed): lockout is never permanent: an account that was
\* registered with a password and has failed attempts counted, or a lock set,
\* can authenticate again: it still stores a hash, which verifies its password,
\* so that a login with that password made once the lock has run out succeeds.
C15_LockoutNeverPermanent ==
    \A i \in 1..Len(users) :
        (/\ streak[i].secret # <<>>
         /\ streak[i].n > 0 \/ LockSet(users[i]))
        => /\ users[i].password # <<>>
           /\ check_password(streak[i].secret, users[i].password[1])

\* C16 (as claimed): a login with a wrong password on an account that is not
\* locked now fails the password check, and its write leaves the account with
\* one failed attempt more than the login read; locked_until is the time of
\* the login plus 30 minutes when the new count has reached 5, and is unset
\* otherwise.
C16_FailedLoginCounted ==
    [][/\ \A e \in Emails, p \in Passwords :
            (/\ pc["t1"] = "idle"
             /\ Account(e) # 0
             /\ streak[Account(e)].secret \notin {<<>>, p}
             /\ ~ LockedNow(users[Account(e)])
             /\ Login("t1", e, p, MaxFailed))
            => /\ pc'["t1"] = "login_write"
               /\ local'["t1"].resp.status = 401
               /\ local'["t1"].index = Account(e)
               /\ local'["t1"].at = now
       /\ (/\ pc["t1"] = "login_write"
           /\ local["t1"].resp.status = 401
           /\ LoginWrite("t1"))
            => LET before == Pending("t1")
                   after == users'[local["t1"].index]
               IN  /\ last'.status = 401
                   /\ last'.error = MsgInvalid
                   /\ after.failed_login_attempts = FailedCount(before) + 1
                   /\ IF after.failed_login_attempts >= 5
                      THEN after.locked_until = local["t1"].at + 30
                      ELSE ~ LockSet(after)]_vars

\* C17: a login on an account whose locked_until is after the clock is
\* answered 423 at once, whatever password it carries and whether or not the
\* account stores a hash: no write is pending, no token is issued, and the
\* collection is left as it was, failed_login_attempts, locked_until and
\* last_login included.
C17_LockedLoginRefused ==
    [][\A e \in Emails, p \in Passwords :
            (/\ pc["t1"] = "idle"
             /\ Account(e) # 0
             /\ LockedNow(users[Account(e)])
             /\ Login("t1", e, p, MaxFailed))
            => /\ pc'["t1"] = "respond"
               /\ last'.op = "login"
               /\ last'.status = 423
               /\ last'.error = MsgLocked
               /\ last'.token = <<>>
               /\ last'.found = <<users[Account(e)]>>
               /\ users' = users]_vars

\* C17 witness: a login with the password of the account has been refused
\* with 423 on the locked account, which is as the login found it
C17_Witness ==
    /\ last.op = "login"
    /\ last.status = 423
    /\ \E i \in 1..Len(users) :
        /\ users[i] = last.found[1]
        /\ Correct(i, last.password)
        /\ users[i].password # <<>>
        /\ users[i].failed_login_attempts >= 5
        /\ LockedNow(users[i])

\* C18 (as claimed): every account is unlocked, with 0 to 4 failed attempts
\* counted and locked_until unset, or locked, with locked_until set to a time
\* after the clock; so an account that is not locked now never counts more
\* than 4 failed attempts.
C18_TwoLockoutStates ==
    \A i \in 1..Len(users) :
        \/ /\ FailedCount(users[i]) \in 0..4
           /\ ~ LockSet(users[i])
        \/ LockedNow(users[i])

\* the lock of the document has run out: locked_until is set and not after
\* the clock
StaleLock(user) == LockSet(user) /\ user.locked_until <= now

\* C19 (as claimed): a login with a wrong password on an account whose lock
\* has run out fails the password check and is answered 401 "Invalid email or
\* password", not 423; the passing of time changes no document; and a step
\* that resets failed_login_attempts to 0 or clears locked_until on such an
\* account is the write of a login that passed the password check.
C19_StaleLockReevaluated ==
    [][/\ \A e \in Emails, p \in Passwords :
            (/\ pc["t1"] = "idle"
             /\ Account(e) # 0
             /\ StaleLock(users[Account(e)])
             /\ streak[Account(e)].secret \notin {<<>>, p}
             /\ Login("t1", e, p, MaxFailed))
            => /\ pc'["t1"] = "login_write"
               /\ local'["t1"].resp.status = 401
               /\ local'["t1"].resp.error = MsgInvalid
       /\ now' # now => users' = users
       /\ \A i \in 1..Len(users) :
            (/\ StaleLock(users[i])
             /\ \/ FailedCount(users[i]) # 0 /\ FailedCount(users'[i]) = 0
                \/ ~ LockSet(users'[i]))
            => /\ pc["t1"] = "login_write"
               /\ local["t1"].resp.status = 200
               /\ local["t1"].index = i
               /\ last'.op = "login"
               /\ last'.status = 200]_vars

\* C20 (as claimed): the stored hash of an account changes only by a
\* change_password for that account that is answered 200: every other step
\* (of login, get_profile, register, get_users, update_user) leaves the hash
\* of every account present and as it was.
C20_HashChangesOnlyByChangePassword ==
    [][\A i \in 1..Len(users) :
            users'[i].password # users[i].password
            => /\ last'.op = "change_password"
               /\ last'.status = 200
               /\ last'.uid = users[i].id
               /\ users'[i].password # <<>>]_vars

\* C21 (as claimed): last_login, failed_login_attempts and locked_until of an
\* account change only by the write of a login on that account, and
\* last_login only by the write of a login that passed the password check: no
\* other step, of update_user and update_last_login included, changes them.
C21_LoginFieldsChangeOnlyByLogin ==
    [][\A i \in 1..Len(users) :
            /\ (\/ users'[i].failed_login_attempts # users[i].failed_login_attempts
                \/ users'[i].locked_until # users[i].locked_until
                \/ users'[i].last_login # users[i].last_login)
               => /\ pc["t1"] = "login_write"
                  /\ local["t1"].index = i
                  /\ last'.op = "login"
            /\ users'[i].last_login # users[i].last_login
               => /\ local["t1"].resp.status = 200
                  /\ last'.status = 200]_vars

-----------------------------------------------------------------------------
(* Properties of the ids, checked under SpecConc *)

\* C22 (as claimed): no two accounts in the store have the same id, those
\* inserted by requests that run at the same time on the in-memory store
\* included, and no step changes the id of an account.
C22_IdsUniqueAndImmutable ==
    [][/\ \A i, j \in 1..Len(users') :
            i # j => users'[i].id # users'[j].id
       /\ \A i \in 1..Len(users) : users'[i].id = users[i].id]_vars

-----------------------------------------------------------------------------
(* Properties of the lockout after the lock has run out and of *)
(* change_password, checked under Spec *)

\* C23 (as claimed): a single login with a wrong password on an account that
\* was locked and whose lock has run out fails the password check, and its
\* write locks the account again, until 30 minutes after the login.
C23_RelockedByOneFailure ==
    [][/\ \A e \in Emails, p \in Passwords :
            (/\ pc["t1"] = "idle"
             /\ Account(e) # 0
             /\ StaleLock(users[Account(e)])
             /\ streak[Account(e)].secret \notin {<<>>, p}
             /\ Login("t1", e, p, MaxFailed))
            => /\ pc'["t1"] = "login_write"
               /\ local'["t1"].resp.status = 401
               /\ local'["t1"].at = now
       /\ (/\ pc["t1"] = "login_write"
           /\ local["t1"].resp.status = 401
           /\ LockSet(Pending("t1"))
           /\ LoginWrite("t1"))
            => /\ last'.status = 401
               /\ users'[local["t1"].index].locked_until = local["t1"].at + 30
               /\ IsLocked(users'[local["t1"].index], local["t1"].at)]_vars

\* C24 (as claimed): change_password neither reads nor writes the lockout
\* state: no change_password changes failed_login_attempts, locked_until or
\* last_login of an account, one refused for a wrong current password
\* changes no document at all, and one for a locked account that carries
\* the password of the account and a valid new password is answered 200 and
\* stores the new hash.
C24_ChangePasswordIgnoresLockout ==
    [][(pc["t1"] = "idle" /\ last'.op = "change_password")
        => /\ Len(users') = Len(users)
           /\ \A i \in 1..Len(users) :
                /\ users'[i].failed_login_attempts = users[i].failed_login_attempts
                /\ users'[i].locked_until = users[i].locked_until
                /\ users'[i].last_login = users[i].last_login
           /\ last'.status # 200 => users' = users
           /\ \A uid \in Ids, n \in Passwords, s \in Salts :
                LET i == FindById(users, uid)
                IN  (/\ i # 0
                     /\ PasswordValid[n][1]
                     /\ streak[i].secret \in Passwords
                     /\ LockedNow(users[i])
                     /\ ChangePassword("t1", uid, streak[i].secret, n, s))
                    => /\ last'.status = 200
                       /\ users'[i].password = <<hash_password(n, s)>>]_vars

=============================================================================
